---- MODULE Spec2Model ----
(***************************************************************************)
(* A model of sphinx_ext_mystmd/builder.py: the two Sphinx builders        *)
(* MySTBuilder ("myst") and MySTXRefBuilder ("myst-xref").                 *)
(*                                                                         *)
(* Strings (document names, paths, URLs, text) are sequences of tokens:    *)
(* a token stands for one character ("/", ":", "?", "#", ";", " ") or for  *)
(* an atomic run of letters ("guide", ".myst.json").  Concatenation of     *)
(* strings is concatenation of sequences.                                  *)
(***************************************************************************)
EXTENDS Naturals, Sequences, FiniteSets, TLC

VARIABLES
    mode,        \* Builder.name: "myst" or "myst-xref"
    found_docs,  \* env.found_docs
    all_docs,    \* env.all_docs (its key set)
    srcfs,       \* the source files, by document name (env.doc2path)
    outfs,       \* the files under outdir, by relative path
    manifest,    \* outdir/myst.xref.json
    clock,       \* the filesystem's clock
    pc,          \* position of the build run
    outdated,    \* what get_outdated_docs yielded in this run
    todo,        \* the documents of this run still to be written
    tree,        \* transform_internal_links: the tree it is applied to
    tree0,       \* ... the tree before the first application
    tree1,       \* ... the tree before the latest application
    passes,      \* ... the number of applications so far
    xnode,       \* _xref_kind_for_node: its argument
    xkind        \* _xref_kind_for_node: its result

vars == <<mode, found_docs, all_docs, srcfs, outfs, manifest, clock, pc,
          outdated, todo, tree, tree0, tree1, passes, xnode, xkind>>

buildVars == <<mode, found_docs, all_docs, srcfs, outfs, manifest, clock, pc,
               outdated, todo>>
linkVars == <<tree, tree0, tree1, passes>>
kindVars == <<xnode, xkind>>

(***************************************************************************)
(* Bounds                                                                  *)
(***************************************************************************)
MaxUrlLen == 4    \* tokens in a link URL
MaxTime == 2      \* the clock runs 1..MaxTime
MaxVersion == 2   \* distinct contents a source file takes

None == <<"None">>            \* Python's None / JSON null: no text equals it
NoFile == [exists |-> FALSE]  \* a path at which there is no file

(***************************************************************************)
(* String helpers                                                          *)
(***************************************************************************)
\* str.find: the first index of token t in s, 0 when absent
Find(s, t) ==
    LET I == {i \in 1..Len(s) : s[i] = t}
    IN  IF I = {} THEN 0 ELSE CHOOSE i \in I : \A j \in I : i <= j

\* str.find(t, start): the first index >= start, 0 when absent
FindFrom(s, t, start) ==
    LET I == {i \in 1..Len(s) : i >= start /\ s[i] = t}
    IN  IF I = {} THEN 0 ELSE CHOOSE i \in I : \A j \in I : i <= j

\* str.rfind: the last index of token t in s, 0 when absent
RFind(s, t) ==
    LET I == {i \in 1..Len(s) : s[i] = t}
    IN  IF I = {} THEN 0 ELSE CHOOSE i \in I : \A j \in I : i >= j

From(s, i) == SubSeq(s, i, Len(s))
Upto(s, i) == SubSeq(s, 1, i)

\* str.lstrip of spaces
RECURSIVE LStrip(_)
LStrip(s) == IF s # <<>> /\ s[1] = " " THEN LStrip(Tail(s)) ELSE s

RECURSIVE Concat(_)
Concat(ss) == IF ss = <<>> THEN <<>> ELSE Head(ss) \o Concat(Tail(ss))

\* all sequences over S of length at most n
RECURSIVE SeqsUpTo(_, _)
SeqsUpTo(S, n) ==
    IF n = 0 THEN {<<>>}
    ELSE LET shorter == SeqsUpTo(S, n - 1)
         IN  shorter \cup {Append(s, t) : s \in shorter, t \in S}

\* all orderings of a finite set
RECURSIVE Orderings(_)
Orderings(S) ==
    IF S = {} THEN {<<>>}
    ELSE UNION {{<<x>> \o o : o \in Orderings(S \ {x})} : x \in S}

(***************************************************************************)
(* urllib.parse, as builder.py uses it (scheme-less URLs reach urlunparse) *)
(***************************************************************************)
AlphaTok == {"guide", "intro", "api"}          \* tokens that start with a letter
SchemeTok == AlphaTok \cup {".myst.json", ".json"} \* tokens of scheme characters

\* index of the first of "/", "?", "#" at or after start; Len+1 when none
NetlocEnd(s, start) ==
    LET I == {i \in 1..Len(s) : i >= start /\ s[i] \in {"/", "?", "#"}}
    IN  IF I = {} THEN Len(s) + 1 ELSE CHOOSE i \in I : \A j \in I : i <= j

\* urllib.parse._splitparams
SplitParams(url) ==
    LET i == IF Find(url, "/") # 0
             THEN FindFrom(url, ";", RFind(url, "/"))
             ELSE Find(url, ";")
    IN  IF i = 0 THEN <<url, <<>>>> ELSE <<Upto(url, i - 1), From(url, i + 1)>>

\* urllib.parse.urlparse(url): the six components
urlparse(url) ==
    LET u1 == LStrip(url)
        c == Find(u1, ":")
        hasScheme == /\ c > 1
                     /\ u1[1] \in AlphaTok
                     /\ \A k \in 1..(c - 1) : u1[k] \in SchemeTok
        scheme == IF hasScheme THEN Upto(u1, c - 1) ELSE <<>>
        u2 == IF hasScheme THEN From(u1, c + 1) ELSE u1
        hasNetloc == Len(u2) >= 2 /\ u2[1] = "/" /\ u2[2] = "/"
        e == NetlocEnd(u2, 3)
        netloc == IF hasNetloc THEN SubSeq(u2, 3, e - 1) ELSE <<>>
        u3 == IF hasNetloc THEN From(u2, e) ELSE u2
        h == Find(u3, "#")
        fragment == IF h = 0 THEN <<>> ELSE From(u3, h + 1)
        u4 == IF h = 0 THEN u3 ELSE Upto(u3, h - 1)
        q == Find(u4, "?")
        query == IF q = 0 THEN <<>> ELSE From(u4, q + 1)
        u5 == IF q = 0 THEN u4 ELSE Upto(u4, q - 1)
        sp == IF Find(u5, ";") # 0 THEN SplitParams(u5) ELSE <<u5, <<>>>>
    IN  [scheme |-> scheme, netloc |-> netloc, path |-> sp[1],
         params |-> sp[2], query |-> query, fragment |-> fragment]

\* urllib.parse.urlunparse(components)
urlunparse(p) ==
    LET u1 == IF p.params # <<>> THEN p.path \o <<";">> \o p.params ELSE p.path
        u2 == IF p.netloc # <<>>
              THEN <<"/", "/">> \o p.netloc
                   \o (IF u1 # <<>> /\ u1[1] # "/" THEN <<"/">> ELSE <<>>) \o u1
              ELSE u1
        u3 == IF p.scheme # <<>> THEN p.scheme \o <<":">> \o u2 ELSE u2
        u4 == IF p.query # <<>> THEN u3 \o <<"?">> \o p.query ELSE u3
    IN  IF p.fragment # <<>> THEN u4 \o <<"#">> \o p.fragment ELSE u4

(***************************************************************************)
(* utils.py: the tree helpers builder.py imports                           *)
(***************************************************************************)
Children(node) == IF "children" \in DOMAIN node THEN node.children ELSE <<>>

\* breadth_first_walk(node): every node of the tree, breadth first
RECURSIVE WalkQueue(_)
WalkQueue(queue) ==
    IF queue = <<>> THEN <<>>
    ELSE <<Head(queue)>> \o WalkQueue(Tail(queue) \o Children(Head(queue)))

breadth_first_walk(node) == WalkQueue(<<node>>)

\* find_by_type(type, node): the nodes of that type, in the walker's order
find_by_type(t, node) ==
    SelectSeq(breadth_first_walk(node), LAMBDA n : n.type = t)

\* to_text(node): the flattened text of a node
RECURSIVE to_text(_)
to_text(node) ==
    IF "value" \in DOMAIN node THEN node.value
    ELSE Concat([i \in DOMAIN Children(node) |-> to_text(Children(node)[i])])

(***************************************************************************)
(* MySTBuilderMixin.transform_internal_links                               *)
(***************************************************************************)
Suffix == <<".myst.json">>

\* a plausible slip: the membership test of line 29 left out
RewrittenUrlAnyPath(url, docnames) ==
    LET parsed_uri == urlparse(url)
    IN  IF parsed_uri.scheme # <<>> \/ parsed_uri.path = <<>> THEN url
        ELSE urlunparse([parsed_uri EXCEPT !.path = @ \o Suffix])

\* a plausible slip: the new path stored instead of the re-serialized URL
RewrittenUrlPathOnly(url, docnames) ==
    LET parsed_uri == urlparse(url)
    IN  IF parsed_uri.scheme # <<>> \/ parsed_uri.path = <<>> THEN url
        ELSE IF parsed_uri.path \notin docnames THEN url
        ELSE parsed_uri.path \o Suffix

\* the body of the loop: the value link["url"] holds afterwards
RewrittenUrl(url, docnames) ==
    LET parsed_uri == urlparse(url)
    IN  IF parsed_uri.scheme # <<>> \/ parsed_uri.path = <<>> THEN url
        ELSE IF parsed_uri.path \notin docnames THEN url
        ELSE urlunparse([parsed_uri EXCEPT !.path = @ \o Suffix])

\* the tree after transform_internal_links(node), with docnames the known ids
RECURSIVE transform_internal_links(_, _)
transform_internal_links(node, docnames) ==
    [f \in DOMAIN node |->
        IF f = "children"
        THEN [i \in DOMAIN node.children |->
                 transform_internal_links(node.children[i], docnames)]
        ELSE IF f = "url" /\ node.type = "link"
        THEN RewrittenUrl(node.url, docnames)
        ELSE node[f]]

(***************************************************************************)
(* transform_internal_links as a function of its inputs: a tree holding    *)
(* one URL in a link, in a nested link and in a node that is no link       *)
(***************************************************************************)
UrlTok == {"guide", ".myst.json", ":", "/", "?", "#", ";", " "}
Urls == SeqsUpTo(UrlTok, MaxUrlLen)

LinkDocSets ==
    {{<<"guide">>},
     {<<"guide">>, <<"guide", ".myst.json">>},
     {<<"guide", "/", "guide">>, <<"intro">>}}

Text(v) == [type |-> "text", value |-> v]

LinkTree(u) ==
    [type |-> "root", children |-> <<
        [type |-> "link", url |-> u, children |-> <<Text(<<"see">>)>>],
        [type |-> "image", url |-> u],
        [type |-> "paragraph", children |-> <<
            Text(<<"more">>),
            [type |-> "link", url |-> u, children |-> <<>>]>>]>>]

InitLinks ==
    /\ found_docs \in LinkDocSets
    /\ \E u \in Urls : tree = LinkTree(u)
    /\ tree0 = tree
    /\ tree1 = tree
    /\ passes = 0
    /\ mode = None /\ all_docs = {} /\ srcfs = <<>> /\ outfs = <<>>
    /\ manifest = NoFile /\ clock = 0 /\ pc = "links"
    /\ outdated = {} /\ todo = {}
    /\ xnode = None /\ xkind = None

\* one run of transform_internal_links over the tree (write_doc calls it
\* once per emission; a second run is a second emission of the same tree)
ApplyTransform ==
    /\ pc = "links"
    /\ passes < 2
    /\ tree' = transform_internal_links(tree, found_docs)
    /\ tree1' = tree
    /\ passes' = passes + 1
    /\ UNCHANGED <<tree0, buildVars, kindVars>>

NextLinks == ApplyTransform

SpecLinks == InitLinks /\ [][NextLinks]_vars

(***************************************************************************)
(* MySTXRefBuilder._xref_kind_for_node as a function of its input          *)
(***************************************************************************)
NodeTypes == {"container", "math", "heading", "paragraph", "table", "figure"}
NodeKinds == {<<"table">>, <<"inline">>, <<"figure">>, <<"container">>}
Identifiers == {<<"fig1">>, <<"eq1">>}

KindNodes ==
    [type : NodeTypes]
    \cup [type : NodeTypes, kind : NodeKinds]
    \cup [type : NodeTypes, identifier : Identifiers]
    \cup [type : NodeTypes, kind : NodeKinds, identifier : Identifiers]

\* a plausible slip: the generic kind test placed before the container case
xref_kind_kind_first(node) ==
    IF "kind" \in DOMAIN node THEN <<node.type, ":">> \o node.kind
    ELSE IF node.type = "container" THEN <<"figure">>
    ELSE <<node.type>>

_xref_kind_for_node(node) ==
    IF node.type = "container"
    THEN (IF "kind" \in DOMAIN node THEN node.kind ELSE <<"figure">>)
    ELSE IF "kind" \in DOMAIN node THEN <<node.type, ":">> \o node.kind
    ELSE <<node.type>>

InitKind ==
    /\ xnode \in KindNodes
    /\ xkind = None
    /\ pc = "kind"
    /\ mode = None /\ found_docs = {} /\ all_docs = {} /\ srcfs = <<>>
    /\ outfs = <<>> /\ manifest = NoFile /\ clock = 0
    /\ outdated = {} /\ todo = {}
    /\ tree = None /\ tree0 = None /\ tree1 = None /\ passes = 0

Classify ==
    /\ pc = "kind"
    /\ xkind = None
    /\ xkind' = _xref_kind_for_node(xnode)
    /\ UNCHANGED <<xnode, buildVars, linkVars>>

NextKind == Classify

SpecKind == InitKind /\ [][NextKind]_vars

(***************************************************************************)
(* The corpus: document names, their parsed trees, their paths             *)
(***************************************************************************)
intro == <<"intro">>
guide == <<"guide">>
apiguide == <<"api", "/", "guide">>
userguide == <<"user", " ", "guide">>

\* the corpora a build is run on (env.found_docs)
DocSets == {{intro, guide}, {guide, apiguide}, {userguide}}

Heading(ident, parts) ==
    [type |-> "heading", identifier |-> ident,
     children |-> [i \in DOMAIN parts |-> Text(parts[i])]]

Link(u) == [type |-> "link", url |-> u, children |-> <<Text(<<"see">>)>>]

\* what MySTNodeVisitor.visit_with_result returns for the document's doctree
DocTree(d) ==
    IF d = intro THEN
        [type |-> "root", children |-> <<
            [type |-> "section", identifier |-> <<"sec1">>, children |-> <<
                [type |-> "math", kind |-> <<"inline">>,
                 identifier |-> <<"eq1">>, value |-> <<"x">>],
                Heading(<<"h-deep">>, <<<<"Deep">>>>)>>],
            Heading(<<"h-intro">>, << <<"In">>, <<"tro">> >>),
            [type |-> "paragraph", children |-> <<
                Link(<<"guide", "#", "frag">>),
                Link(<<"intro", ":", "guide">>)>>],
            [type |-> "container", kind |-> <<"table">>,
             identifier |-> <<"tbl1">>]>>]
    ELSE IF d = guide THEN
        [type |-> "root", children |-> <<
            [type |-> "paragraph", children |-> <<
                Text(<<"hello">>), Link(<<"api", "/", "guide">>)>>],
            [type |-> "container", identifier |-> <<"fig1">>]>>]
    ELSE IF d = apiguide THEN
        [type |-> "root", children |-> <<
            [type |-> "paragraph", identifier |-> <<"p1">>, children |-> <<
                Link(<<"guide">>)>>],
            [type |-> "heading", children |-> <<>>]>>]
    ELSE
        [type |-> "root", children |-> <<
            [type |-> "paragraph", children |-> <<Link(<<"intro">>)>>]>>]

\* os.path.basename
basename(path) == From(path, RFind(path, "/") + 1)

\* utils.title_to_name: the URL-safe stem of a name
title_to_name(name) ==
    [i \in DOMAIN name |-> IF name[i] = " " THEN "-" ELSE name[i]]

_slugify(path) == title_to_name(basename(path))

\* MySTBuilder._get_output_path, relative to outdir
_get_output_path(doc_name) == _slugify(doc_name) \o <<".myst.json">>

\* MySTXRefBuilder._get_target_path, relative to outdir
_get_target_path(doc_name) ==
    <<"content", "/">> \o _slugify(doc_name) \o <<".json">>

\* the artifact path of the running builder
ArtifactPath(d) ==
    IF mode = "myst" THEN _get_output_path(d) ELSE _get_target_path(d)

AllDocs == UNION DocSets
OutPaths ==
    {_get_output_path(d) : d \in AllDocs} \cup {_get_target_path(d) : d \in AllDocs}

\* hashlib.sha256(contents).hexdigest(): distinct contents, distinct digests
sha256(contents) == <<"sha256", contents>>

Corrupt == [kind |-> "Corrupt"]   \* file contents that json.load rejects

(***************************************************************************)
(* get_outdated_docs (both builders)                                       *)
(***************************************************************************)
\* os.path.getmtime(target_path), 0 when it raises
targetmtime(d) ==
    IF outfs[ArtifactPath(d)] = NoFile THEN 0 ELSE outfs[ArtifactPath(d)].mtime

\* a plausible slip: >= for >
IsOutdatedOrEqual(docname) ==
    IF docname \notin all_docs THEN TRUE
    ELSE IF srcfs[docname] = NoFile THEN FALSE
    ELSE srcfs[docname].mtime >= targetmtime(docname)

\* whether the loop body yields docname
IsOutdated(docname) ==
    IF docname \notin all_docs THEN TRUE
    ELSE IF srcfs[docname] = NoFile THEN FALSE
    ELSE srcfs[docname].mtime > targetmtime(docname)

get_outdated_docs ==
    /\ pc = "idle"
    /\ outdated' = {d \in found_docs : IsOutdated(d)}
    /\ todo' = outdated'
    /\ pc' = "writing"
    /\ UNCHANGED <<mode, found_docs, all_docs, srcfs, outfs, manifest, clock,
                   linkVars, kindVars>>

(***************************************************************************)
(* write_doc                                                               *)
(***************************************************************************)
\* a plausible slip: the flag set whether or not a heading was found
FrontmatterAlwaysTitled(mdast) ==
    LET headings == find_by_type("heading", mdast)
    IN  [title |-> IF headings # <<>> THEN to_text(headings[1]) ELSE None,
         content_includes_title |-> TRUE]

\* the frontmatter block: the title lifted from the first heading
Frontmatter(mdast) ==
    LET headings == find_by_type("heading", mdast)
        title == IF headings # <<>> THEN to_text(headings[1]) ELSE None
    IN  [title |-> title, content_includes_title |-> title # None]

\* what MySTXRefBuilder.write_doc dumps
XRefArtifact(doc_name, mdast) ==
    [kind |-> "Article",
     sha256 |-> sha256(srcfs[doc_name].bytes),
     slug |-> _slugify(doc_name),
     location |-> <<"/">> \o doc_name,
     dependencies |-> <<>>,
     frontmatter |-> Frontmatter(mdast),
     mdast |-> mdast,
     references |-> [cite |-> [order |-> <<>>, data |-> <<>>]]]

\* what MySTBuilder.write_doc dumps
PlainArtifact(doc_name, mdast) == [kind |-> "Article", mdast |-> mdast]

\* the file written at the artifact path; "writer" is not part of the file:
\* it records which document's emission wrote it
WrittenFile(doc_name, json) ==
    [mtime |-> clock, json |-> json, writer |-> doc_name]

\* MySTBuilder.write_doc(doc_name, doc_tree)
write_doc_myst(d) ==
    /\ pc = "writing"
    /\ mode = "myst"
    /\ d \in todo
    /\ outfs' = [outfs EXCEPT ![_get_output_path(d)] =
                    WrittenFile(d, PlainArtifact(d,
                        transform_internal_links(DocTree(d), found_docs)))]
    /\ todo' = todo \ {d}
    /\ UNCHANGED <<mode, found_docs, all_docs, srcfs, manifest, clock, pc,
                   outdated, linkVars, kindVars>>

\* MySTXRefBuilder.write_doc(doc_name, doc_tree); open(source_path) raises
\* when the source is gone, before the target is opened
write_doc_xref(d) ==
    /\ pc = "writing"
    /\ mode = "myst-xref"
    /\ d \in todo
    /\ IF srcfs[d] = NoFile
       THEN /\ pc' = "failed"
            /\ UNCHANGED <<outfs, todo>>
       ELSE /\ outfs' = [outfs EXCEPT ![_get_target_path(d)] =
                            WrittenFile(d, XRefArtifact(d,
                                transform_internal_links(DocTree(d), found_docs)))]
            /\ todo' = todo \ {d}
            /\ pc' = pc
    /\ UNCHANGED <<mode, found_docs, all_docs, srcfs, manifest, clock,
                   outdated, linkVars, kindVars>>

(***************************************************************************)
(* MySTXRefBuilder.finish                                                  *)
(***************************************************************************)
\* open(path) and json.load succeed
Readable(path) == outfs[path] # NoFile /\ outfs[path].json # Corrupt

\* _get_written_target_references(doc), the artifact being readable
_get_written_target_references(doc) ==
    LET path == _get_target_path(doc)
        slug == _slugify(doc)
        nodes == SelectSeq(breadth_first_walk(outfs[path].json.mdast),
                           LAMBDA n : "identifier" \in DOMAIN n)
    IN  [i \in DOMAIN nodes |->
            [identifier |-> nodes[i].identifier,
             kind |-> _xref_kind_for_node(nodes[i]),
             data |-> path,
             url |-> <<"/">> \o slug]]

PageReference(n) ==
    [kind |-> <<"page">>, url |-> <<"/">> \o _slugify(n), data |-> _get_target_path(n)]

\* a plausible slip: each document's node entries right after its page entry
ReferencesInterleaved(order) ==
    Concat([i \in DOMAIN order |->
               <<PageReference(order[i])>>
               \o _get_written_target_references(order[i])])

\* references, for found_docs iterated in the given order
References(order) ==
    LET page_references == [i \in DOMAIN order |-> PageReference(order[i])]
        target_references ==
            Concat([i \in DOMAIN order |->
                       _get_written_target_references(order[i])])
    IN  page_references \o target_references

XRefFile(references) ==
    [version |-> "1", myst |-> "1.36.0", references |-> references]

EmptyFile == [exists |-> TRUE]   \* a file opened for writing and never written

\* a plausible slip: the manifest opened for writing before the artifacts
\* are read, so that a failed read leaves it truncated
FinishOutcomeOpenFirst(order) ==
    IF \E d \in found_docs : ~Readable(_get_target_path(d))
    THEN [ok |-> FALSE, manifest |-> EmptyFile]
    ELSE [ok |-> TRUE, manifest |-> XRefFile(References(order))]

\* whether finish returns, and the manifest file it leaves
FinishOutcome(order) ==
    IF \E d \in found_docs : ~Readable(_get_target_path(d))
    THEN [ok |-> FALSE, manifest |-> manifest]
    ELSE [ok |-> TRUE, manifest |-> XRefFile(References(order))]

\* MySTXRefBuilder.finish(); found_docs is a set, iterated twice in one order
finish ==
    /\ pc = "writing"
    /\ mode = "myst-xref"
    /\ todo = {}
    /\ \E order \in Orderings(found_docs) :
         /\ manifest' = FinishOutcome(order).manifest
         /\ pc' = IF FinishOutcome(order).ok THEN "done" ELSE "failed"
    /\ UNCHANGED <<mode, found_docs, all_docs, srcfs, outfs, clock, outdated,
                   todo, linkVars, kindVars>>

\* MySTBuilder defines no finish: Builder.finish does nothing
finish_myst ==
    /\ pc = "writing"
    /\ mode = "myst"
    /\ todo = {}
    /\ pc' = "done"
    /\ UNCHANGED <<mode, found_docs, all_docs, srcfs, outfs, manifest, clock,
                   outdated, todo, linkVars, kindVars>>

(***************************************************************************)
(* The environment between runs: Sphinx's record of what was built, the    *)
(* clock, and the files changing under the builder                         *)
(***************************************************************************)
\* the run is over (finished or failed); env.all_docs holds every document
EndRun ==
    /\ pc \in {"done", "failed"}
    /\ pc' = "idle"
    /\ all_docs' = all_docs \cup found_docs
    /\ outdated' = {}
    /\ todo' = {}
    /\ UNCHANGED <<mode, found_docs, srcfs, outfs, manifest, clock,
                   linkVars, kindVars>>

Tick ==
    /\ pc = "idle"
    /\ clock < MaxTime
    /\ clock' = clock + 1
    /\ UNCHANGED <<mode, found_docs, all_docs, srcfs, outfs, manifest, pc,
                   outdated, todo, linkVars, kindVars>>

\* the source of d is saved with new contents
EditSource(d, v) ==
    /\ pc = "idle"
    /\ d \in found_docs
    /\ IF srcfs[d] = NoFile THEN TRUE ELSE srcfs[d].bytes # v
    /\ srcfs' = [srcfs EXCEPT ![d] = [mtime |-> clock, bytes |-> v]]
    /\ UNCHANGED <<mode, found_docs, all_docs, outfs, manifest, clock, pc,
                   outdated, todo, linkVars, kindVars>>

DeleteSource(d) ==
    /\ pc = "idle"
    /\ d \in found_docs
    /\ srcfs[d] # NoFile
    /\ srcfs' = [srcfs EXCEPT ![d] = NoFile]
    /\ UNCHANGED <<mode, found_docs, all_docs, outfs, manifest, clock, pc,
                   outdated, todo, linkVars, kindVars>>

DeleteOutput(d) ==
    /\ pc = "idle"
    /\ d \in found_docs
    /\ outfs[ArtifactPath(d)] # NoFile
    /\ outfs' = [outfs EXCEPT ![ArtifactPath(d)] = NoFile]
    /\ UNCHANGED <<mode, found_docs, all_docs, srcfs, manifest, clock, pc,
                   outdated, todo, linkVars, kindVars>>

\* an artifact is left half-written (an interrupted earlier run)
TruncateOutput(d) ==
    /\ pc = "idle"
    /\ d \in found_docs
    /\ outfs[ArtifactPath(d)] # NoFile
    /\ outfs[ArtifactPath(d)].json # Corrupt
    /\ outfs' = [outfs EXCEPT ![ArtifactPath(d)] =
                     [mtime |-> clock, json |-> Corrupt, writer |-> d]]
    /\ UNCHANGED <<mode, found_docs, all_docs, srcfs, manifest, clock, pc,
                   outdated, todo, linkVars, kindVars>>

Init ==
    /\ mode \in {"myst", "myst-xref"}
    /\ found_docs \in DocSets
    /\ all_docs = {}
    /\ srcfs = [d \in AllDocs |->
                   IF d \in found_docs THEN [mtime |-> 1, bytes |-> 1] ELSE NoFile]
    /\ outfs = [p \in OutPaths |-> NoFile]
    /\ manifest = NoFile
    /\ clock = 1
    /\ pc = "idle"
    /\ outdated = {}
    /\ todo = {}
    /\ tree = None /\ tree0 = None /\ tree1 = None /\ passes = 0
    /\ xnode = None /\ xkind = None

Next ==
    \/ get_outdated_docs
    \/ \E d \in AllDocs : write_doc_myst(d)
    \/ \E d \in AllDocs : write_doc_xref(d)
    \/ finish
    \/ finish_myst
    \/ EndRun
    \/ Tick
    \/ \E d \in AllDocs, v \in 1..MaxVersion : EditSource(d, v)
    \/ \E d \in AllDocs : DeleteSource(d)
    \/ \E d \in AllDocs : DeleteOutput(d)
    \/ \E d \in AllDocs : TruncateOutput(d)

Spec == Init /\ [][Next]_vars

(***************************************************************************)
(* Claims about the pure functions                                         *)
(***************************************************************************)
\* a node's own fields, its children left out
Shallow(n) == [f \in (DOMAIN n) \ {"children"} |-> n[f]]

\* the link is one transform_internal_links rewrites, as the claims put it:
\* no scheme, a non-empty path, the path a known document id
Internal(url) ==
    LET p == urlparse(url)
    IN  p.scheme = <<>> /\ p.path # <<>> /\ p.path \in found_docs

\* the relation C3 states between a node before (a) and after (b) one run
C3_NodeOk(a, b) ==
    IF a.type = "link"
    THEN /\ (b.url # a.url) <=> Internal(a.url)
         /\ [f \in (DOMAIN a) \ {"children", "url"} |-> a[f]]
              = [f \in (DOMAIN b) \ {"children", "url"} |-> b[f]]
         /\ Internal(a.url) =>
              LET p == urlparse(a.url)
                  r == urlparse(b.url)
              IN  /\ r.path = p.path \o Suffix
                  /\ r.scheme = p.scheme
                  /\ r.query = p.query
                  /\ r.fragment = p.fragment
                  /\ r.netloc = p.netloc
                  /\ r.params = p.params
    ELSE Shallow(a) = Shallow(b)

\* C3: transform_internal_links changes a link's URL iff the URL has no
\* scheme, a non-empty path and that path is a known document id; then the
\* path gets the suffix appended and scheme, query and fragment (and netloc
\* and params) are kept; every other link and every non-link node is unchanged.
C3_LinkFrame ==
    passes >= 1 =>
        LET before == breadth_first_walk(tree1)
            after == breadth_first_walk(tree)
        IN  /\ Len(before) = Len(after)
            /\ \A i \in DOMAIN before : C3_NodeOk(before[i], after[i])

\* a link with a query was rewritten and a link with a scheme was not
C3_Witness ==
    /\ passes = 1
    /\ tree # tree1
    /\ \E i \in DOMAIN breadth_first_walk(tree1) :
         LET a == breadth_first_walk(tree1)[i]
         IN  /\ a.type = "link"
             /\ Internal(a.url)
             /\ urlparse(a.url).query # <<>>
             /\ breadth_first_walk(tree)[i].url # a.url

\* the links of a tree, in the walker's order
Links(t) == SelectSeq(breadth_first_walk(t), LAMBDA n : n.type = "link")

\* C4 as stated: for every set of known ids and every link whose path is a
\* known id, the second run leaves the path the first run produced.
C4_Idempotent ==
    passes = 2 =>
        \A i \in DOMAIN Links(tree0) :
            LET p0 == urlparse(Links(tree0)[i].url)
            IN  (p0.scheme = <<>> /\ p0.path # <<>> /\ p0.path \in found_docs)
                => urlparse(Links(tree)[i].url).path
                     = urlparse(Links(tree1)[i].url).path

\* C4 amended: the same, for the links whose rewritten path (the id with the
\* suffix appended) is not itself a known document id.
C4_IdempotentUnlessSuffixedId ==
    passes = 2 =>
        \A i \in DOMAIN Links(tree0) :
            LET p0 == urlparse(Links(tree0)[i].url)
            IN  (/\ p0.scheme = <<>> /\ p0.path # <<>>
                 /\ p0.path \in found_docs
                 /\ p0.path \o Suffix \notin found_docs)
                => urlparse(Links(tree)[i].url).path
                     = urlparse(Links(tree1)[i].url).path

\* a link was rewritten by the first run and kept by the second
C4_Witness ==
    /\ passes = 2
    /\ \E i \in DOMAIN Links(tree0) :
         LET p0 == urlparse(Links(tree0)[i].url)
         IN  /\ p0.scheme = <<>> /\ p0.path \in found_docs
             /\ p0.path \o Suffix \notin found_docs
             /\ p0.fragment # <<>>
             /\ Links(tree1)[i].url # Links(tree0)[i].url
             /\ Links(tree)[i].url = Links(tree1)[i].url

\* C6: for a node with an identifier: a container classifies as its kind
\* field when present and as "figure" otherwise, never as "container:<kind>";
\* any other node with a kind field as "<type>:<kind>"; any other as its type.
C6_KindPrecedence ==
    (xkind # None /\ "identifier" \in DOMAIN xnode) =>
        /\ (xnode.type = "container" /\ "kind" \in DOMAIN xnode)
              => xkind = xnode.kind
        /\ (xnode.type = "container" /\ "kind" \notin DOMAIN xnode)
              => xkind = <<"figure">>
        /\ xnode.type = "container"
              => ~(Len(xkind) >= 2 /\ xkind[1] = "container" /\ xkind[2] = ":")
        /\ (xnode.type # "container" /\ "kind" \in DOMAIN xnode)
              => xkind = <<xnode.type, ":">> \o xnode.kind
        /\ (xnode.type # "container" /\ "kind" \notin DOMAIN xnode)
              => xkind = <<xnode.type>>

\* a container with kind "table" and an identifier was classified "table"
C6_Witness ==
    /\ xkind = <<"table">>
    /\ xnode.type = "container"
    /\ "kind" \in DOMAIN xnode
    /\ "identifier" \in DOMAIN xnode

(***************************************************************************)
(* Claims about the build                                                  *)
(***************************************************************************)
\* the stale set as C1 gives it, over the state get_outdated_docs starts in
C1_StaleSet ==
    {d \in found_docs :
        \/ d \notin all_docs
        \/ /\ srcfs[d] # NoFile
           /\ srcfs[d].mtime >
                (IF outfs[ArtifactPath(d)] = NoFile
                 THEN 0 ELSE outfs[ArtifactPath(d)].mtime)}

\* C1: for both builders get_outdated_docs returns, without raising, exactly
\* the never-built documents plus the built ones whose source can be statted
\* and is strictly newer than the output (a missing output counting as 0).
C1_Staleness ==
    [][(pc = "idle" /\ pc' # "idle")
          => (pc' = "writing" /\ outdated' = C1_StaleSet)]_vars

\* a run in which a built document with equal mtimes was skipped, a built
\* document with a newer source was selected, and nothing is written yet
C1_Witness ==
    /\ pc = "writing"
    /\ todo = outdated
    /\ \E d \in found_docs \cap all_docs :
         /\ srcfs[d] # NoFile
         /\ outfs[ArtifactPath(d)] # NoFile
         /\ srcfs[d].mtime = outfs[ArtifactPath(d)].mtime
         /\ d \notin outdated
    /\ \E d \in found_docs \cap all_docs :
         /\ srcfs[d] # NoFile
         /\ srcfs[d].mtime > targetmtime(d)
         /\ d \in outdated

\* C2 as stated: after each completed run of the cross-reference builder every
\* known document whose source exists has an artifact whose sha256 is the
\* hash of the current source bytes.
C2_NeverStale ==
    (pc = "done" /\ mode = "myst-xref") =>
        \A d \in found_docs :
            srcfs[d] # NoFile =>
                /\ Readable(_get_target_path(d))
                /\ outfs[_get_target_path(d)].json.sha256
                     = sha256(srcfs[d].bytes)

\* the links of an emitted tree against the links of the tree it came from
C5_LinksOk(orig, new) ==
    \A i \in DOMAIN orig :
        (urlparse(orig[i].url).scheme = <<>>
            /\ urlparse(orig[i].url).path \in found_docs)
        => urlparse(new[i].url).path
             = _get_target_path(urlparse(orig[i].url).path)

\* C5 as stated: in cross-reference mode every emitted internal link whose
\* path is a known document id d has as its path the path, relative to the
\* output root, at which the builder writes d's artifact.
C5_LinksPointAtArtifacts ==
    mode = "myst-xref" =>
        \A p \in OutPaths :
            Readable(p) =>
                C5_LinksOk(Links(DocTree(outfs[p].writer)),
                           Links(outfs[p].json.mdast))

\* C7: when finish has completed, references is one page entry per known
\* document, in some order of the documents, followed by the node entries of
\* every document's artifact, the documents in that same order and each
\* document's entries in the walker's order.
C7_ManifestOrder ==
    (pc = "done" /\ mode = "myst-xref") =>
        \E order \in Orderings(found_docs) :
            /\ Len(manifest.references) >= Len(order)
            /\ \A i \in DOMAIN order :
                 manifest.references[i] = PageReference(order[i])
            /\ SubSeq(manifest.references, Len(order) + 1,
                      Len(manifest.references))
                 = Concat([i \in DOMAIN order |->
                              _get_written_target_references(order[i])])
            /\ \A i \in (Len(order) + 1)..Len(manifest.references) :
                 "identifier" \in DOMAIN manifest.references[i]

\* finish completed over two documents of which only one was rewritten in
\* this run, and the manifest holds node entries
C7_Witness ==
    /\ pc = "done"
    /\ mode = "myst-xref"
    /\ Cardinality(found_docs) = 2
    /\ Cardinality(outdated) = 1
    /\ \A d \in found_docs : _get_written_target_references(d) # <<>>
    /\ Len(manifest.references) > 3

\* C8: when the artifact of a known document is missing or unreadable as
\* finish runs, finish fails and the manifest file is left as it was.
C8_FinishFatal ==
    [][(/\ pc = "writing" /\ todo = {} /\ mode = "myst-xref"
        /\ \E d \in found_docs : ~Readable(_get_target_path(d)))
          => (pc' = "failed" /\ manifest' = manifest)]_vars

\* finish failed on a missing artifact with an earlier run's manifest in place
C8_Witness ==
    /\ pc = "failed"
    /\ mode = "myst-xref"
    /\ todo = {}
    /\ manifest # NoFile
    /\ \E d \in found_docs : outfs[_get_target_path(d)] = NoFile

\* C9: in cross-reference mode an artifact's frontmatter.title is the
\* flattened text of the first heading of its AST, null when there is no
\* heading, and content_includes_title is true iff there is one.
C9_Title ==
    mode = "myst-xref" =>
        \A p \in OutPaths :
            Readable(p) =>
                /\ find_by_type("heading", outfs[p].json.mdast) = <<>>
                     => outfs[p].json.frontmatter.title = None
                /\ find_by_type("heading", outfs[p].json.mdast) # <<>>
                     => outfs[p].json.frontmatter.title
                          = to_text(find_by_type("heading",
                                                 outfs[p].json.mdast)[1])
                /\ outfs[p].json.frontmatter.content_includes_title
                     = (find_by_type("heading", outfs[p].json.mdast) # <<>>)

\* one artifact with the title "Intro" and one with no title
C9_Witness ==
    /\ mode = "myst-xref"
    /\ \E p \in OutPaths :
         /\ Readable(p)
         /\ outfs[p].json.frontmatter.title = <<"In", "tro">>
         /\ outfs[p].json.frontmatter.content_includes_title
    /\ \E p \in OutPaths :
         /\ Readable(p)
         /\ outfs[p].json.frontmatter.title = None
         /\ ~outfs[p].json.frontmatter.content_includes_title

\* C10 as stated: the documents written so far in a run have pairwise
\* distinct artifact paths, and the file at each one's path is the one its
\* own emission wrote.
C10_NoOverwrite ==
    pc \in {"writing", "done"} =>
        /\ \A d1, d2 \in outdated \ todo :
             d1 # d2 => ArtifactPath(d1) # ArtifactPath(d2)
        /\ \A d \in outdated \ todo :
             /\ outfs[ArtifactPath(d)] # NoFile
             /\ outfs[ArtifactPath(d)].writer = d

====
